---------------------------- MODULE Spec2Model ----------------------------
(***************************************************************************)
(* The MCP federation installers and uninstallers as one state machine     *)
(* over the files they share: the Claude Desktop registry document, the    *)
(* installation manifests and the backup directory.                        *)
(*                                                                         *)
(* Programs (variable "tool"):                                             *)
(*   "v3.0"   src/install_v3.0.py          MCPInstaller                    *)
(*   "v3.1"   src/install_v3.1_backup.py   MCPInstaller                    *)
(*   "v3.3"   src/install.py               MCPFederationInstaller          *)
(*   "v3.4"   src/install_v3.4.py          MCPFederationInstaller          *)
(*   "fed"    src/FEDERATED-INSTALLER-UNIFIED-VERBOSE.py                   *)
(*   "uninst" src/uninstall.py             SafeMCPUninstaller              *)
(*   "clean"  src/mcp-servers/workspace/uninstaller-clean.py               *)
(*                                                                         *)
(* Abstractions.  All programs are pointed at the same registry document   *)
(* (the per-platform path tables are not modelled).  An entry's value is   *)
(* abstracted to the form of its command line; a value written by a user   *)
(* or by another tool is "user".  The document's top-level keys other than *)
(* mcpServers are one opaque value, "other".  One run executes at a time   *)
(* (section 5 of the specification: no concurrent writers).                *)
(***************************************************************************)
EXTENDS Integers, Sequences, FiniteSets, TLC

(***************************************************************************)
(* Bounds of the model.                                                    *)
(***************************************************************************)
\* Runs (installs and uninstalls) in one behaviour.
MaxRuns == 3
\* Environment failures (failed prerequisite, backup, write or acquisition
\* action) injected in one behaviour.
MaxFaults == 1

(***************************************************************************)
(* Catalogs, in the iteration order of the source dictionaries.            *)
(***************************************************************************)
V30_NAMES ==
    << "filesystem", "memory", "sequential-thinking", "github-manager",
       "sqlite", "playwright", "web-search", "git-ops", "perplexity",
       "desktop-commander", "expert-role-prompt", "converse-enhanced",
       "kimi-k2-code-context", "kimi-k2-resilient", "rag-context" >>

NODEJS_MCP_CONFIGS ==
    << "filesystem", "memory", "sequential-thinking", "github-manager",
       "sqlite", "playwright", "web-search", "git-ops", "perplexity" >>

PYTHON_MCPS ==
    << "desktop-commander", "expert-role-prompt", "converse-enhanced",
       "kimi-k2-code-context", "kimi-k2-resilient", "rag-context" >>

MCP_NPX_PACKAGES ==
    << "filesystem", "memory", "sequential-thinking", "github-manager",
       "sqlite", "playwright", "git-ops", "desktop-commander", "web-search",
       "perplexity" >>

LOCAL_NODE_MCPS == << "expert-role-prompt" >>

LOCAL_PYTHON_MCPS_v33 ==
    << "converse-enhanced", "kimi-k2-code-context-enhanced",
       "kimi-k2-resilient-enhanced", "rag-context-fixed" >>

LOCAL_PYTHON_MCPS_v34 ==
    << "converse-enhanced", "kimi-k2-code-context", "kimi-k2-resilient",
       "rag-context" >>

get_mcp_source_matrix ==
    << "sequential-thinking", "filesystem", "github", "sqlite", "playwright",
       "memory", "web-search", "git-ops", "desktop-commander", "perplexity",
       "expert-role-prompt", "converse-enhanced", "kimi-k2-code-context",
       "kimi-k2-resilient", "rag-context" >>

\* uninstall.py, the --force list
FORCE_LIST ==
    << "filesystem", "memory", "sequential-thinking", "github-manager",
       "sqlite", "playwright", "web-search", "git-ops", "desktop-commander",
       "perplexity", "expert-role-prompt", "converse-enhanced",
       "kimi-k2-code-context", "kimi-k2-resilient", "rag-context" >>

fallback_federation_mcps ==
    << "sequential-thinking", "memory", "filesystem", "sqlite",
       "github-manager", "web-search", "playwright", "git-ops",
       "desktop-commander", "perplexity", "expert-role-prompt", "converse",
       "rag-context", "kimi-k2-code-context", "kimi-k2-resilient" >>

Range(s) == { s[i] : i \in DOMAIN s }

(***************************************************************************)
(* Inputs of the model: the names a document found on disk may hold, and   *)
(* the acquisition actions that may fail.                                  *)
(***************************************************************************)
\* One foreign name (tests/test_installer_ci.py's mock config), one name that
\* every catalog registers through npx, one that v3.1 treats as a Python MCP.
InitNames == { "existing-mcp-1", "filesystem", "desktop-commander" }

\* Entries whose acquisition (clone, npm install) may fail in a run: both are
\* cloned by install_v3.1 and the federated installer, the second also by
\* install.py and install_v3.4.
Flaky == { "desktop-commander", "converse-enhanced" }

(***************************************************************************)
(* Documents.  A file is absent, unparseable, or a JSON object.            *)
(***************************************************************************)
EmptyMap == [ n \in {} |-> "user" ]

Doc(hs, ms, oth) ==
    [ kind |-> "doc", hasServers |-> hs, mcpServers |-> ms, other |-> oth ]

Absent ==
    [ kind |-> "absent", hasServers |-> FALSE, mcpServers |-> EmptyMap,
      other |-> "none" ]

\* Not parseable as JSON: garbage, or the prefix a failed write left behind.
Malformed ==
    [ kind |-> "malformed", hasServers |-> FALSE, mcpServers |-> EmptyMap,
      other |-> "none" ]

\* Python's None where a dict is expected.
None ==
    [ kind |-> "none", hasServers |-> FALSE, mcpServers |-> EmptyMap,
      other |-> "none" ]

Keys(d) == DOMAIN d.mcpServers

\* bool(d) for a value that is None or a dict: an empty dict is falsy.
Truthy(d) == d.kind = "doc" /\ (d.hasServers \/ d.other # "none")

\* A document rebuilt with the registry key alone.
EnsureServersOnly(d) == Doc(TRUE, d.mcpServers, "none")

\* config['mcpServers'] = {} when the key is missing.
EnsureServers(d) == Doc(TRUE, d.mcpServers, d.other)


(***************************************************************************)
(* Entry values written by each program.                                   *)
(***************************************************************************)
\* install_v3.0.py MCP_CONFIGS and install_v3.1 NODEJS_MCP_CONFIGS:
\* {'command': 'npx', 'args': ['-y', <package>, ...]}
NpxConfig == "npx"
\* install_v3.1 install_python_mcp: {'command': 'python', 'args': ['server.py'], 'cwd': ...}
PythonConfig == "python"
\* install.py configure_npx_mcp: {'command': self.get_npx_cmd(), ...}
NpxCmdConfig == "npx_cmd"
\* install.py install_local_node_mcp: {'command': 'node', ...}
LocalNodeConfig == "node"
\* install.py install_local_python_mcp: {'command': 'python', 'args': [<main>]}
LocalPythonConfig == "python_main"
\* FEDERATED installer: matrix[name]['config']
MatrixConfig == "matrix"

(***************************************************************************)
(* Manifest files.                                                         *)
(***************************************************************************)
NoFile ==
    [ kind |-> "absent", empty |-> TRUE, version |-> "none",
      installed_by_us |-> << >>, already_existed |-> {},
      claude_desktop_mcps |-> << >> ]

BadFile ==
    [ kind |-> "malformed", empty |-> TRUE, version |-> "none",
      installed_by_us |-> << >>, already_existed |-> {},
      claude_desktop_mcps |-> << >> ]

\* The JSON object {} (no keys): parses, and is falsy in Python.
EmptyObject ==
    [ kind |-> "obj", empty |-> TRUE, version |-> "none",
      installed_by_us |-> << >>, already_existed |-> {},
      claude_desktop_mcps |-> << >> ]

ManifestObject(v, inst, existed, catalog) ==
    [ kind |-> "obj", empty |-> FALSE, version |-> v,
      installed_by_us |-> inst, already_existed |-> existed,
      claude_desktop_mcps |-> catalog ]

\* bool(manifest) for None or a dict
ManifestTruthy(m) == m.kind = "obj" /\ ~m.empty

\* The manifest of uninstaller-clean.py (~/mcp-servers/installation_manifest.json)
\* has its own keys; no program under src/ writes it.
CoreNoFile ==
    [ kind |-> "absent", empty |-> TRUE, newly_installed_mcps |-> << >>,
      pre_existing_mcps |-> {} ]

CoreBadFile ==
    [ kind |-> "malformed", empty |-> TRUE, newly_installed_mcps |-> << >>,
      pre_existing_mcps |-> {} ]

CoreManifestObject(inst, existed) ==
    [ kind |-> "obj", empty |-> FALSE, newly_installed_mcps |-> inst,
      pre_existing_mcps |-> existed ]

(***************************************************************************)
(* State.                                                                  *)
(***************************************************************************)
VARIABLES
    disk,          \* the registry document claude_desktop_config.json
    manifest,      \* ~/.mcp-federation/installation_manifest.json
    coreManifest,  \* ~/mcp-servers/installation_manifest.json
    backups,       \* the backup directory: a set of [name, content]
    pc,            \* position of the running program; "idle" between runs
    tool,          \* the program that runs
    force,         \* uninstall.py --force
    self,          \* the fields of the running installer / uninstaller object
    exitCode,      \* exit code of the run once it is done, "none" before
    runs,          \* runs started
    faults,        \* environment failures injected
    pre,           \* history: the registry document when the run started
    log,           \* history: the steps the run has completed, in order
    streak,        \* history: consecutive successful installs that wrote a manifest
    streakTools,   \*   the programs that performed them
    streakBase,    \*   the registry document before the first of them
    streakAdded,   \*   the names they inserted
    trip           \* history: the install of an install / uninstall / install

files == << disk, manifest, coreManifest, backups >>
proc == << pc, tool, force, self, exitCode >>
hist == << pre, log, streak, streakTools, streakBase, streakAdded, trip >>
vars == << files, proc, runs, faults, hist >>

INSTALLERS == { "v3.0", "v3.1", "v3.3", "v3.4", "fed" }
\* The installers that write an installation manifest.
MANIFEST_INSTALLERS == { "v3.0", "v3.1" }

\* The object's fields after __init__.
NewSelf(t) ==
    [ existing_config |-> None,
      config          |-> None,
      MCP_CONFIGS     |-> IF t = "v3.0" THEN V30_NAMES ELSE << >>,
      already_existed |-> {},        \* also self.existing_mcps
      installed_by_us |-> << >>,
      installed_mcps  |-> << >>,
      failed_mcps     |-> << >>,
      errors          |-> << >>,
      attempts        |-> EmptyMap,  \* executions of each acquisition action
      manifest        |-> NoFile,    \* uninstall.py self.manifest (None)
      coreManifest    |-> CoreNoFile,
      by              |-> "none",    \* what chose the names to remove
      removed         |-> << >> ]


(***************************************************************************)
(* The programs' functions on documents.                                   *)
(***************************************************************************)
\* d[name] = v
Put(servers, name, v) ==
    [ n \in (DOMAIN servers) \cup {name} |->
        IF n = name THEN v ELSE servers[n] ]

\* del d[name]
Del(servers, name) ==
    [ n \in (DOMAIN servers) \ {name} |-> servers[n] ]

\* MCPInstaller.read_existing_config: the config returned (None for a missing
\* or unparseable file) and self.already_existed = list(self.existing_mcps).
read_existing_config(file) ==
    IF file.kind = "absent" THEN [ config |-> None, already_existed |-> {} ]
    ELSE IF file.kind # "doc"                       \* json.load raises
         THEN [ config |-> None, already_existed |-> {} ]
    ELSE [ config |-> file,
           already_existed |-> IF file.hasServers THEN Keys(file) ELSE {} ]

\* A merge loop that drops an entry it finds instead of skipping it.
RECURSIVE MergeLoopDrop(_, _, _)
MergeLoopDrop(names, servers, installed) ==
    IF names = << >> THEN [ mcpServers |-> servers, installed_by_us |-> installed ]
    ELSE LET name == Head(names) IN
         IF name \notin DOMAIN servers
         THEN MergeLoopDrop(Tail(names), Put(servers, name, NpxConfig),
                            Append(installed, name))
         ELSE MergeLoopDrop(Tail(names), Del(servers, name), installed)

\* The loop of install_v3.0.py merge_configs over MCP_CONFIGS.items().
RECURSIVE MergeLoop(_, _, _)
MergeLoop(names, servers, installed) ==
    IF names = << >> THEN [ mcpServers |-> servers, installed_by_us |-> installed ]
    ELSE LET name == Head(names) IN
         IF name \notin DOMAIN servers
         THEN MergeLoop(Tail(names), Put(servers, name, NpxConfig),
                        Append(installed, name))
         ELSE MergeLoop(Tail(names), servers, installed)

\* merge_configs building the document from scratch whatever was read.
merge_configs_fresh(existing_config, MCP_CONFIGS, installed_by_us) ==
    LET r == MergeLoop(MCP_CONFIGS, EmptyMap, installed_by_us)
    IN  [ config |-> Doc(TRUE, r.mcpServers, "none"),
          installed_by_us |-> r.installed_by_us ]

\* install_v3.0.py MCPInstaller.merge_configs
merge_configs(existing_config, MCP_CONFIGS, installed_by_us) ==
    LET config == IF existing_config.kind = "none"
                  THEN Doc(TRUE, EmptyMap, "none")
                  ELSE EnsureServers(existing_config)
        r == MergeLoop(MCP_CONFIGS, config.mcpServers, installed_by_us)
    IN  [ config |-> Doc(TRUE, r.mcpServers, config.other),
          installed_by_us |-> r.installed_by_us ]

\* self.MCP_CONFIGS[name] of install_v3.1: Node.js entries run through npx,
\* Python entries through python server.py.
ConfigV31(name) ==
    IF name \in Range(PYTHON_MCPS) THEN PythonConfig ELSE NpxConfig

\* The loop of install_v3.1_backup.py merge_configs: an existing Python MCP
\* is overwritten and recorded as installed.
RECURSIVE MergeLoopV31(_, _, _)
MergeLoopV31(names, servers, installed) ==
    IF names = << >> THEN [ mcpServers |-> servers, installed_by_us |-> installed ]
    ELSE LET name == Head(names) IN
         IF name \notin DOMAIN servers
         THEN MergeLoopV31(Tail(names), Put(servers, name, ConfigV31(name)),
                           Append(installed, name))
         ELSE IF name \in Range(PYTHON_MCPS)
         THEN MergeLoopV31(Tail(names), Put(servers, name, ConfigV31(name)),
                           IF name \notin Range(installed)
                           THEN Append(installed, name) ELSE installed)
         ELSE MergeLoopV31(Tail(names), servers, installed)

\* install_v3.1_backup.py MCPInstaller.merge_configs
merge_configs_v31(existing_config, MCP_CONFIGS, installed_by_us) ==
    LET config == IF existing_config.kind = "none"
                  THEN Doc(TRUE, EmptyMap, "none")
                  ELSE EnsureServers(existing_config)
        r == MergeLoopV31(MCP_CONFIGS, config.mcpServers, installed_by_us)
    IN  [ config |-> Doc(TRUE, r.mcpServers, config.other),
          installed_by_us |-> r.installed_by_us ]

\* s without the members of F, order kept
RECURSIVE Filter(_, _)
Filter(s, F) ==
    IF s = << >> THEN << >>
    ELSE IF Head(s) \in F THEN Filter(Tail(s), F)
    ELSE << Head(s) >> \o Filter(Tail(s), F)

\* config["mcpServers"][name] = mcp_config for every name of names
RECURSIVE SetAll(_, _, _)
SetAll(names, servers, v) ==
    IF names = << >> THEN servers
    ELSE SetAll(Tail(names), Put(servers, Head(names), v), v)

\* The three configuration loops of install.py / install_v3.4.py
\* install_all_mcps: configure_npx_mcp, install_local_node_mcp and
\* install_local_python_mcp each assign config["mcpServers"][name].
configure_all(servers, local_python) ==
    SetAll(local_python,
           SetAll(LOCAL_NODE_MCPS,
                  SetAll(MCP_NPX_PACKAGES, servers, NpxCmdConfig),
                  LocalNodeConfig),
           LocalPythonConfig)

\* The loop of FEDERATED write_configuration over self.installed_mcps.
add_our_mcps(servers, installed_mcps) ==
    SetAll(Filter(installed_mcps, Range(installed_mcps) \ Range(get_mcp_source_matrix)),
           servers, MatrixConfig)

\* A removal loop that leaves after its first deletion.
RECURSIVE RemoveFirstOnly(_, _, _)
RemoveFirstOnly(to_remove, servers, removed) ==
    IF to_remove = << >> THEN [ mcpServers |-> servers, removed |-> removed ]
    ELSE LET mcp == Head(to_remove) IN
         IF mcp \in DOMAIN servers
         THEN [ mcpServers |-> Del(servers, mcp), removed |-> Append(removed, mcp) ]
         ELSE RemoveFirstOnly(Tail(to_remove), servers, removed)

\* The removal loop of uninstall.py remove_our_mcps and of
\* uninstaller-clean.py remove_federation_mcps.
RECURSIVE RemoveLoop(_, _, _)
RemoveLoop(to_remove, servers, removed) ==
    IF to_remove = << >> THEN [ mcpServers |-> servers, removed |-> removed ]
    ELSE LET mcp == Head(to_remove) IN
         IF mcp \in DOMAIN servers
         THEN RemoveLoop(Tail(to_remove), Del(servers, mcp), Append(removed, mcp))
         ELSE RemoveLoop(Tail(to_remove), servers, removed)

\* uninstall.py remove_our_mcps, lines 113-129: the names to remove, or
\* "refuse" when there is neither a (truthy) manifest nor --force.
to_remove(m, f) ==
    IF ManifestTruthy(m) THEN [ ok |-> TRUE, names |-> m.installed_by_us, by |-> "manifest" ]
    ELSE IF f THEN [ ok |-> TRUE, names |-> FORCE_LIST, by |-> "force" ]
    ELSE [ ok |-> FALSE, names |-> << >>, by |-> "refuse" ]

\* uninstaller-clean.py remove_federation_mcps, lines 116-128
mcps_to_remove(m) ==
    IF m.kind = "obj" /\ ~m.empty
    THEN [ names |-> m.newly_installed_mcps, by |-> "manifest" ]
    ELSE [ names |-> fallback_federation_mcps, by |-> "fallback" ]

\* shutil.copy2(config_path, backup_dir / f"{prefix}{timestamp}.json"):
\* a file of that name is replaced.
CopyToBackup(dir, prefix, ts, content) ==
    { b \in dir : b.name # << prefix, ts >> }
        \cup { [ name |-> << prefix, ts >>, content |-> content ] }


\* The second-resolution timestamps a new backup may carry: a later second
\* than every backup taken so far, or the second of the latest one.
BackupStamps(dir) ==
    IF dir = {} THEN { 1 }
    ELSE LET latest == CHOOSE t \in { b.name[2] : b \in dir } :
                           \A b \in dir : b.name[2] <= t
         IN  { latest, latest + 1 }

(***************************************************************************)
(* Initial states.                                                         *)
(***************************************************************************)
InitDocs ==
    { Absent, Malformed }
        \cup { Doc(FALSE, EmptyMap, oth) : oth \in { "none", "prefs" } }
        \cup { Doc(TRUE, [ n \in K |-> "user" ], "none") : K \in SUBSET InitNames }
        \cup { Doc(TRUE, [ n \in InitNames |-> "user" ], "prefs") }

InitManifests ==
    { NoFile, BadFile, EmptyObject,
      ManifestObject("3.0.0", << >>, {}, V30_NAMES),
      ManifestObject("3.0.0", << "filesystem" >>, { "desktop-commander" }, V30_NAMES),
      ManifestObject("3.0.0", << "filesystem", "memory" >>, {}, V30_NAMES),
      ManifestObject("3.1.0", << "desktop-commander", "filesystem" >>,
                     { "desktop-commander" }, NODEJS_MCP_CONFIGS \o PYTHON_MCPS) }

InitCoreManifests ==
    { CoreNoFile, CoreBadFile,
      CoreManifestObject(<< >>, { "filesystem" }),
      CoreManifestObject(<< "filesystem" >>, { "desktop-commander" }),
      CoreManifestObject(<< "filesystem", "memory" >>, {}),
      CoreManifestObject(<< "desktop-commander", "filesystem" >>, {}) }

\* No install remembered.
NoTrip ==
    [ phase |-> 0, tool |-> "none", S |-> << >>, manifest |-> NoFile, disk |-> None ]

InitRest ==
    /\ backups = {}
    /\ trip = NoTrip
    /\ pc = "idle"
    /\ tool = "none"
    /\ force = FALSE
    /\ self = NewSelf("none")
    /\ exitCode = "none"
    /\ faults = 0
    /\ pre = None
    /\ log = << >>
    /\ streak = 0
    /\ streakTools = {}
    /\ streakBase = None
    /\ streakAdded = {}

\* A machine on which no program of the federation has run: any registry
\* document, no manifest.
Init ==
    /\ disk \in InitDocs
    /\ manifest = NoFile
    /\ coreManifest = CoreNoFile
    /\ runs = 0
    /\ InitRest

\* Any registry document beside any manifest, and one run.
InitAny ==
    /\ disk \in InitDocs
    /\ manifest \in InitManifests
    /\ coreManifest \in InitCoreManifests
    /\ runs = MaxRuns - 1
    /\ InitRest

(***************************************************************************)
(* Steps shared by the runs.                                               *)
(***************************************************************************)
\* A process that reports success whatever happened.
ExitZero(code) == pc' = "done" /\ exitCode' = 0

Exit(code) == pc' = "done" /\ exitCode' = code

Step(label) == log' = Append(log, label)

streakVars == << streak, streakTools, streakBase, streakAdded, trip >>

\* Every acquisition action of names is executed by one subprocess.run call,
\* outside any loop.
Once(names) == [ n \in names |-> 1 ]

\* A program is started.
StartRun(t, f) ==
    /\ pc = "idle"
    /\ runs < MaxRuns
    /\ runs' = runs + 1
    /\ tool' = t
    /\ force' = f
    /\ self' = NewSelf(t)
    /\ exitCode' = "none"
    /\ pre' = disk
    /\ log' = << >>
    /\ pc' = "start"
    /\ UNCHANGED << files, faults, streakVars >>

StartInstall == \E t \in INSTALLERS : StartRun(t, FALSE)

StartUninstall == \E f \in BOOLEAN : StartRun("uninst", f)

StartClean == StartRun("clean", FALSE)

\* The process has exited: its object is gone.
EndRun ==
    /\ pc = "done"
    /\ pc' = "idle"
    /\ tool' = "none"
    /\ force' = FALSE
    /\ self' = NewSelf("none")
    /\ exitCode' = "none"
    /\ pre' = None
    /\ log' = << >>
    /\ IF tool \in MANIFEST_INSTALLERS /\ exitCode = 0 /\ "manifest" \in Range(log)
       THEN /\ streak' = streak + 1
            /\ streakTools' = streakTools \cup { tool }
            /\ streakBase' = IF streak = 0 THEN pre ELSE streakBase
            /\ streakAdded' = streakAdded \cup (Keys(disk) \ Keys(pre))
       ELSE /\ streak' = 0
            /\ streakTools' = {}
            /\ streakBase' = None
            /\ streakAdded' = {}
    /\ trip' = IF tool \in MANIFEST_INSTALLERS /\ exitCode = 0
                    /\ "manifest" \in Range(log)
               THEN [ phase |-> 1, tool |-> tool, S |-> self.MCP_CONFIGS,
                      manifest |-> manifest, disk |-> disk ]
               ELSE IF tool = "uninst" /\ exitCode = 0 /\ self.by = "manifest"
                         /\ "save" \in Range(log) /\ trip.phase = 1
               THEN [ trip EXCEPT !.phase = 2 ]
               ELSE NoTrip
    /\ UNCHANGED << files, runs, faults >>

(***************************************************************************)
(* install_v3.0.py and install_v3.1_backup.py: MCPInstaller.run            *)
(***************************************************************************)
\* run: self.prereq_manager.check_all_prerequisites()
CheckAllPrerequisites ==
    /\ pc = "start"
    /\ tool \in { "v3.0", "v3.1" }
    /\ \/ /\ pc' = IF tool = "v3.1" THEN "prepare" ELSE "read"
          /\ Step("prereq")
          /\ UNCHANGED << exitCode, faults >>
       \/ /\ faults < MaxFaults
          /\ faults' = faults + 1
          /\ Exit(1)
          /\ UNCHANGED log
    /\ UNCHANGED << files, tool, force, self, runs, pre, streakVars >>

\* install_v3.1 prepare_mcp_configs: a Python MCP whose install_python_mcp
\* fails gets no configuration; the run goes on.
PrepareMcpConfigs ==
    /\ pc = "prepare"
    /\ \E F \in SUBSET (Flaky \cap Range(PYTHON_MCPS)) :
          /\ faults + Cardinality(F) <= MaxFaults
          /\ faults' = faults + Cardinality(F)
          /\ self' = [ self EXCEPT
                 !.MCP_CONFIGS = NODEJS_MCP_CONFIGS \o Filter(PYTHON_MCPS, F),
                 !.failed_mcps = Filter(PYTHON_MCPS, Range(PYTHON_MCPS) \ F),
                 !.attempts = Once(Range(PYTHON_MCPS)) ]
    /\ pc' = "read"
    /\ Step("actions")
    /\ UNCHANGED << files, tool, force, exitCode, runs, pre, streakVars >>

\* run: existing_config = self.read_existing_config()
ReadExistingConfig ==
    /\ pc = "read"
    /\ LET r == read_existing_config(disk) IN
          self' = [ self EXCEPT !.existing_config = r.config,
                                !.already_existed = r.already_existed ]
    /\ pc' = "backup"
    /\ Step("read")
    /\ UNCHANGED << files, tool, force, exitCode, runs, faults, pre, streakVars >>

\* run: if existing_config: if not self.backup_config(): return 1
BackupConfig ==
    /\ pc = "backup"
    /\ IF ~Truthy(self.existing_config)
       THEN /\ pc' = "merge"
            /\ UNCHANGED << backups, exitCode, faults, log >>
       ELSE \/ /\ \E ts \in BackupStamps(backups) :
                     backups' = CopyToBackup(backups, "claude_config_backup_", ts, disk)
               /\ pc' = "merge"
               /\ Step("backup")
               /\ UNCHANGED << exitCode, faults >>
            \/ /\ faults < MaxFaults
               /\ faults' = faults + 1
               /\ Exit(1)
               /\ UNCHANGED << backups, log >>
    /\ UNCHANGED << disk, manifest, coreManifest, tool, force, self, runs, pre, streakVars >>

\* run: merged_config = self.merge_configs(existing_config)
MergeConfigs ==
    /\ pc = "merge"
    /\ LET r == IF tool = "v3.1"
                THEN merge_configs_v31(self.existing_config, self.MCP_CONFIGS,
                                       self.installed_by_us)
                ELSE merge_configs(self.existing_config, self.MCP_CONFIGS,
                                   self.installed_by_us)
       IN  self' = [ self EXCEPT !.config = r.config,
                                 !.installed_by_us = r.installed_by_us ]
    /\ pc' = "save"
    /\ Step("merge")
    /\ UNCHANGED << files, tool, force, exitCode, runs, faults, pre, streakVars >>

\* What open(path, 'w') followed by a failing write leaves: the old file when
\* open itself fails, an unparseable prefix otherwise.
FailedWrite(old) == { old, Malformed }

\* run: if not self.save_config(merged_config): return 1
SaveConfig ==
    /\ pc = "save"
    /\ \/ /\ disk' = self.config
          /\ pc' = "manifest"
          /\ Step("save")
          /\ UNCHANGED << exitCode, faults >>
       \/ /\ faults < MaxFaults
          /\ faults' = faults + 1
          /\ disk' \in FailedWrite(disk)
          /\ Exit(1)
          /\ UNCHANGED log
    /\ UNCHANGED << manifest, coreManifest, backups, tool, force, self, runs, pre, streakVars >>

\* MCPInstaller.save_manifest: the file written
NewManifest(t, me) ==
    ManifestObject(IF t = "v3.1" THEN "3.1.0" ELSE "3.0.0",
                   me.installed_by_us, me.already_existed, me.MCP_CONFIGS)

\* A run that writes the manifest and validates afterwards.
SaveManifestThenValidate ==
    /\ pc = "manifest"
    /\ manifest' = NewManifest(tool, self)
    /\ log' = log \o << "manifest", "validate" >>
    /\ Exit(0)
    /\ UNCHANGED << disk, coreManifest, backups, tool, force, self, runs, faults,
                    pre, streakVars >>

\* run: self.validate_installation(merged_config); self.save_manifest(); return 0
\* A manifest that cannot be written is reported and the run still returns 0.
SaveManifest ==
    /\ pc = "manifest"
    /\ \/ /\ manifest' = NewManifest(tool, self)
          /\ log' = log \o << "validate", "manifest" >>
          /\ UNCHANGED faults
       \/ /\ faults < MaxFaults
          /\ faults' = faults + 1
          /\ manifest' \in { manifest, BadFile }
          /\ Step("validate")
    /\ Exit(0)
    /\ UNCHANGED << disk, coreManifest, backups, tool, force, self, runs, pre, streakVars >>

(***************************************************************************)
(* install.py (v3.3.0) and install_v3.4.py: MCPFederationInstaller.run     *)
(***************************************************************************)
\* run: if not self.check_prerequisites(): return 1
CheckPrerequisites ==
    /\ pc = "start"
    /\ tool \in { "v3.3", "v3.4" }
    /\ \/ /\ pc' = "install_all"
          /\ Step("prereq")
          /\ UNCHANGED << exitCode, faults >>
       \/ /\ faults < MaxFaults
          /\ faults' = faults + 1
          /\ Exit(1)
          /\ UNCHANGED log
    /\ UNCHANGED << files, tool, force, self, runs, pre, streakVars >>

\* install_all_mcps, "Load or create config": json.load is not guarded.
load_or_create(file) ==
    IF file.kind = "absent" THEN Doc(TRUE, EmptyMap, "none")
    ELSE EnsureServers(file)

\* LOCAL_PYTHON_MCPS entries with a "repo": install_local_python_mcp runs
\* git clone for them.
CLONED == << "converse-enhanced" >>

\* run: self.install_all_mcps(); return 0.  No backup is taken and no
\* manifest written; an exception ends the process with a traceback.  A clone
\* that fails is recorded in self.errors and the entry is configured anyway.
InstallAllMcps ==
    /\ pc = "install_all"
    /\ IF disk.kind = "malformed"
       THEN /\ Exit(1)
            /\ UNCHANGED << disk, self, faults, log >>
       ELSE LET config == load_or_create(disk)
                servers == configure_all(config.mcpServers,
                               IF tool = "v3.4" THEN LOCAL_PYTHON_MCPS_v34
                                                ELSE LOCAL_PYTHON_MCPS_v33)
            IN  \E F \in SUBSET (Flaky \cap Range(CLONED)) :
                /\ self' = [ self EXCEPT
                       !.config = Doc(TRUE, servers, config.other),
                       !.errors = Filter(CLONED, Range(CLONED) \ F),
                       !.attempts = Once(Range(CLONED)) ]
                /\ \/ /\ faults + Cardinality(F) <= MaxFaults
                      /\ faults' = faults + Cardinality(F)
                      /\ disk' = self'.config
                      /\ log' = log \o << "read", "actions", "merge", "save" >>
                      /\ Exit(0)
                   \/ /\ faults + Cardinality(F) < MaxFaults
                      /\ faults' = faults + Cardinality(F) + 1
                      /\ disk' \in FailedWrite(disk)
                      /\ log' = log \o << "read", "actions", "merge" >>
                      /\ Exit(1)
    /\ UNCHANGED << manifest, coreManifest, backups, tool, force, runs, pre, streakVars >>

(***************************************************************************)
(* FEDERATED-INSTALLER-UNIFIED-VERBOSE.py: FederatedUnifiedInstaller       *)
(***************************************************************************)
\* install: check_prerequisites() and check_installation_location()
FedCheckPrerequisites ==
    /\ pc = "start"
    /\ tool = "fed"
    /\ \/ /\ pc' = "fed_install"
          /\ Step("prereq")
          /\ UNCHANGED << exitCode, faults >>
       \/ /\ faults < MaxFaults
          /\ faults' = faults + 1
          /\ Exit(1)
          /\ UNCHANGED log
    /\ UNCHANGED << files, tool, force, self, runs, pre, streakVars >>

\* install: the loop over the matrix; install_npm_mcp / install_github_mcp
\* succeed or fail for each name.
FedInstallMcps ==
    /\ pc = "fed_install"
    /\ \E F \in SUBSET (Flaky \cap Range(get_mcp_source_matrix)) :
          /\ faults + Cardinality(F) <= MaxFaults
          /\ faults' = faults + Cardinality(F)
          /\ self' = [ self EXCEPT
                 !.installed_mcps = Filter(get_mcp_source_matrix, F),
                 !.failed_mcps = Filter(get_mcp_source_matrix,
                                        Range(get_mcp_source_matrix) \ F),
                 !.attempts = Once(Range(get_mcp_source_matrix)) ]
    /\ pc' = "fed_write"
    /\ Step("actions")
    /\ UNCHANGED << files, tool, force, exitCode, runs, pre, streakVars >>

\* install: self.write_configuration(); return len(self.failed_mcps) == 0.
\* write_configuration reports any exception and returns False, which install
\* does not look at.
WriteConfiguration ==
    /\ pc = "fed_write"
    /\ IF disk.kind = "malformed"
       THEN UNCHANGED << disk, self, faults, log >>
       ELSE LET config == load_or_create(disk)
                servers == add_our_mcps(config.mcpServers, self.installed_mcps)
            IN  /\ self' = [ self EXCEPT !.config = Doc(TRUE, servers, config.other) ]
                /\ \/ /\ disk' = self'.config
                      /\ log' = log \o << "read", "merge", "save" >>
                      /\ UNCHANGED faults
                   \/ /\ faults < MaxFaults
                      /\ faults' = faults + 1
                      /\ disk' \in FailedWrite(disk)
                      /\ log' = log \o << "read", "merge" >>
    /\ Exit(IF self.failed_mcps = << >> THEN 0 ELSE 1)
    /\ UNCHANGED << manifest, coreManifest, backups, tool, force, runs, pre, streakVars >>

(***************************************************************************)
(* uninstall.py: SafeMCPUninstaller.run                                    *)
(***************************************************************************)
\* load_manifest: the value left in self.manifest, None unless the file parses
load_manifest(file) == IF file.kind = "obj" THEN file ELSE NoFile

\* run: has_manifest = self.load_manifest();
\*      if not has_manifest and not self.force: return 1
LoadManifest ==
    /\ pc = "start"
    /\ tool = "uninst"
    /\ self' = [ self EXCEPT !.manifest = load_manifest(manifest) ]
    /\ IF manifest.kind # "obj" /\ ~force
       THEN Exit(1) /\ UNCHANGED log
       ELSE pc' = "confirm" /\ Step("manifest_loaded") /\ UNCHANGED exitCode
    /\ UNCHANGED << files, tool, force, runs, faults, pre, streakVars >>

\* run: response = input("Proceed with uninstall? (yes/no): ")
Confirm ==
    /\ pc = "confirm"
    /\ \/ pc' = "backup_current" /\ Step("confirmed") /\ UNCHANGED exitCode
       \/ Exit(0) /\ UNCHANGED log
    /\ UNCHANGED << files, tool, force, self, runs, faults, pre, streakVars >>

\* An uninstaller that looks at the backup's result after the removal.
BackupCurrentConfigLate ==
    /\ pc = "backup_current"
    /\ disk.kind = "doc"
    /\ faults < MaxFaults
    /\ faults' = faults + 1
    /\ disk' = Doc(TRUE, RemoveLoop(to_remove(self.manifest, force).names,
                                   disk.mcpServers, << >>).mcpServers, disk.other)
    /\ Exit(1)
    /\ UNCHANGED << manifest, coreManifest, backups, tool, force, self, runs, pre,
                    log, streakVars >>

\* run: if not self.backup_current_config(): return 1
BackupCurrentConfig ==
    /\ pc = "backup_current"
    /\ IF disk.kind = "absent"
       THEN /\ pc' = "remove"
            /\ UNCHANGED << backups, exitCode, faults, log >>
       ELSE \/ /\ \E ts \in BackupStamps(backups) :
                     backups' = CopyToBackup(backups, "pre_uninstall_", ts, disk)
               /\ pc' = "remove"
               /\ Step("backup")
               /\ UNCHANGED << exitCode, faults >>
            \/ /\ faults < MaxFaults
               /\ faults' = faults + 1
               /\ Exit(1)
               /\ UNCHANGED << backups, log >>
    /\ UNCHANGED << disk, manifest, coreManifest, tool, force, self, runs, pre, streakVars >>

\* run: if not self.remove_our_mcps(): return 1
RemoveOurMcps ==
    /\ pc = "remove"
    /\ LET choice == to_remove(self.manifest, force)
           r == RemoveLoop(choice.names, disk.mcpServers, << >>)
       IN  IF disk.kind = "absent" \/ (disk.kind = "doc" /\ ~disk.hasServers)
           THEN /\ pc' = "cleanup"
                /\ UNCHANGED << disk, self, exitCode, faults, log >>
           ELSE IF disk.kind = "malformed" \/ ~choice.ok
           THEN /\ Exit(1)
                /\ UNCHANGED << disk, self, faults, log >>
           ELSE /\ self' = [ self EXCEPT !.removed = r.removed, !.by = choice.by ]
                /\ \/ /\ disk' = Doc(TRUE, r.mcpServers, disk.other)
                      /\ pc' = "cleanup"
                      /\ log' = log \o << "read", "remove", "save" >>
                      /\ UNCHANGED << exitCode, faults >>
                   \/ /\ faults < MaxFaults
                      /\ faults' = faults + 1
                      /\ disk' \in FailedWrite(disk)
                      /\ log' = log \o << "read", "remove" >>
                      /\ Exit(1)
    /\ UNCHANGED << manifest, coreManifest, backups, tool, force, runs, pre, streakVars >>

\* run: if self.manifest: self.cleanup_manifest(); return 0
\* cleanup_manifest reports an unlink that fails ("Could not cleanup
\* manifest") and the run still returns 0.
CleanupManifest ==
    /\ pc = "cleanup"
    /\ IF ManifestTruthy(self.manifest)
       THEN \/ /\ manifest' = NoFile
               /\ Step("cleanup")
               /\ UNCHANGED faults
            \/ /\ faults < MaxFaults
               /\ faults' = faults + 1
               /\ UNCHANGED << manifest, log >>
       ELSE UNCHANGED << manifest, log, faults >>
    /\ Exit(0)
    /\ UNCHANGED << disk, coreManifest, backups, tool, force, self, runs,
                    pre, streakVars >>

(***************************************************************************)
(* mcp-servers/workspace/uninstaller-clean.py: MCPUninstaller.uninstall    *)
(***************************************************************************)
\* load_installation_manifest: None unless the file parses
load_installation_manifest(file) == IF file.kind = "obj" THEN file ELSE CoreNoFile

\* uninstall(mode='selective'): self.remove_federation_mcps()
RemoveFederationMcps ==
    /\ pc = "start"
    /\ tool = "clean"
    /\ pc' = "clean_files"
    /\ IF disk.kind = "absent"
       THEN UNCHANGED << disk, self, faults, log >>
       ELSE LET m == load_installation_manifest(coreManifest)
                choice == mcps_to_remove(m)
                r == RemoveLoop(choice.names, disk.mcpServers, << >>)
            IN  IF disk.kind = "malformed" \/ ~disk.hasServers
                THEN /\ self' = [ self EXCEPT !.coreManifest = m ]
                     /\ UNCHANGED << disk, faults, log >>
                ELSE /\ self' = [ self EXCEPT !.coreManifest = m,
                                              !.removed = r.removed,
                                              !.by = choice.by ]
                     /\ IF r.removed = << >>
                        THEN /\ Step("read")
                             /\ UNCHANGED << disk, faults >>
                        ELSE \/ /\ disk' = Doc(TRUE, r.mcpServers, disk.other)
                                /\ log' = log \o << "read", "remove", "save" >>
                                /\ UNCHANGED faults
                             \/ /\ faults < MaxFaults
                                /\ faults' = faults + 1
                                /\ disk' \in FailedWrite(disk)
                                /\ log' = log \o << "read", "remove" >>
    /\ UNCHANGED << manifest, coreManifest, backups, tool, force, exitCode, runs,
                    pre, streakVars >>

\* uninstall: "Remove federation data files? (y/n)"; clean_federation_files
\* unlinks the manifest.  uninstall returns True whatever happened.
CleanFederationFiles ==
    /\ pc = "clean_files"
    /\ \/ /\ coreManifest.kind # "absent"
          /\ coreManifest' = CoreNoFile
          /\ Step("cleanup")
       \/ UNCHANGED << coreManifest, log >>
    /\ Exit(0)
    /\ UNCHANGED << disk, manifest, backups, tool, force, self, runs, faults,
                    pre, streakVars >>

(***************************************************************************)
(* The installer process is interrupted (Ctrl-C, kill) while it runs its   *)
(* acquisition actions: nothing is caught inside the action phase, the     *)
(* process ends with a non-zero code before it reaches its write.          *)
(***************************************************************************)
\* An installer that writes what it has configured so far when it is stopped.
InterruptFlush ==
    /\ pc \in { "prepare", "install_all", "fed_install" }
    /\ faults < MaxFaults
    /\ faults' = faults + 1
    /\ disk' = Doc(TRUE, EmptyMap, "none")
    /\ Exit(1)
    /\ UNCHANGED << manifest, coreManifest, backups, tool, force, self, runs, pre,
                    log, streakVars >>

Interrupt ==
    /\ pc \in { "prepare", "install_all", "fed_install" }
    /\ faults < MaxFaults
    /\ faults' = faults + 1
    /\ Exit(1)
    /\ UNCHANGED << files, tool, force, self, runs, pre, log, streakVars >>

(***************************************************************************)
(* The system.                                                             *)
(***************************************************************************)
Next ==
    \/ StartInstall
    \/ StartUninstall
    \/ StartClean
    \/ CheckAllPrerequisites
    \/ PrepareMcpConfigs
    \/ ReadExistingConfig
    \/ BackupConfig
    \/ MergeConfigs
    \/ SaveConfig
    \/ SaveManifest
    \/ CheckPrerequisites
    \/ InstallAllMcps
    \/ FedCheckPrerequisites
    \/ FedInstallMcps
    \/ WriteConfiguration
    \/ LoadManifest
    \/ Confirm
    \/ BackupCurrentConfig
    \/ RemoveOurMcps
    \/ CleanupManifest
    \/ RemoveFederationMcps
    \/ CleanFederationFiles
    \/ Interrupt
    \/ EndRun

Spec == Init /\ [][Next]_vars

SpecAny == InitAny /\ [][Next]_vars

(***************************************************************************)
(* Vocabulary of the properties.                                           *)
(***************************************************************************)
\* The catalog of an installer: every name it may register.
CatalogOf(t) ==
    IF t = "v3.0" THEN Range(V30_NAMES)
    ELSE IF t = "v3.1" THEN Range(NODEJS_MCP_CONFIGS) \cup Range(PYTHON_MCPS)
    ELSE IF t = "v3.3"
         THEN Range(MCP_NPX_PACKAGES) \cup Range(LOCAL_NODE_MCPS)
                  \cup Range(LOCAL_PYTHON_MCPS_v33)
    ELSE IF t = "v3.4"
         THEN Range(MCP_NPX_PACKAGES) \cup Range(LOCAL_NODE_MCPS)
                  \cup Range(LOCAL_PYTHON_MCPS_v34)
    ELSE IF t = "fed" THEN Range(get_mcp_source_matrix)
    ELSE {}

\* The names the run registers: the catalog without the entries whose
\* acquisition failed in this run.
Desired(t, me) ==
    IF t = "v3.1" THEN Range(me.MCP_CONFIGS)
    ELSE IF t = "fed" THEN Range(me.installed_mcps)
    ELSE CatalogOf(t)

\* The run has written the registry file.
RegistrySaved == "save" \in Range(log)

InstallSaved == tool \in INSTALLERS /\ RegistrySaved

\* Entry n of document d is in document e with the same value.
Kept(n, d, e) ==
    n \in Keys(e) /\ e.mcpServers[n] = d.mcpServers[n]

\* Document e is document d without the names of I, nothing else changed.
Minus(d, I, e) ==
    /\ e.kind = "doc"
    /\ Keys(e) = Keys(d) \ I
    /\ \A n \in Keys(e) : e.mcpServers[n] = d.mcpServers[n]
    /\ e.other = d.other

\* The run is an uninstall that took the names to remove from a manifest.
ManifestDriven == tool \in { "uninst", "clean" } /\ self.by = "manifest"

\* The installed list of the manifest the running uninstaller loaded.
LoadedInstalled ==
    IF tool = "clean" THEN Range(self.coreManifest.newly_installed_mcps)
    ELSE Range(self.manifest.installed_by_us)

(***************************************************************************)
(* C1.  Install never overwrites or deletes an existing entry: a catalog   *)
(* name that is already a key of the registry D keeps D's value in the     *)
(* saved registry, for every installer.  install_v3.1 overwrites existing  *)
(* Python MCPs; install.py, install_v3.4 and the federated installer       *)
(* assign every name unconditionally.                                      *)
(***************************************************************************)
C1_ExistingCatalogEntriesKept ==
    InstallSaved =>
        \A n \in Keys(pre) \cap CatalogOf(tool) : Kept(n, pre, disk)

C3_UninstallExact ==
    (ManifestDriven /\ RegistrySaved) => Minus(pre, LoadedInstalled, disk)

C3_Witness ==
    /\ ManifestDriven
    /\ RegistrySaved
    /\ tool = "uninst"
    /\ LoadedInstalled \cap Keys(pre) # {}
    /\ LoadedInstalled \ Keys(pre) # {}
    /\ Keys(pre) \ LoadedInstalled # {}

(***************************************************************************)
(* C4.  An install run that writes a manifest, followed by a               *)
(* manifest-driven uninstall: every entry that was in the registry before  *)
(* the install is present with its pre-install value after the uninstall,  *)
(* also when its name is a catalog name.  install_v3.1 records an existing *)
(* Python MCP it overwrote as installed, and uninstall.py deletes it.      *)
(***************************************************************************)
C4_PreexistingSurviveRoundTrip ==
    (pc = "done" /\ tool = "uninst" /\ ManifestDriven /\ RegistrySaved /\ streak = 1) =>
        \A n \in Keys(streakBase) : Kept(n, streakBase, disk)

(***************************************************************************)
(* C5.  After n >= 1 consecutive successful install runs and one           *)
(* manifest-driven uninstall, every entry one of those runs inserted is    *)
(* absent and every entry that existed before the first run is present.    *)
(* Stated for runs of install_v3.0 alone: its second run replaces the      *)
(* manifest by one with an empty installed_by_us.                          *)
(***************************************************************************)
C5_RepeatedRunsReversed ==
    (pc = "done" /\ tool = "uninst" /\ ManifestDriven /\ RegistrySaved
        /\ streak >= 1 /\ streakTools = { "v3.0" }) =>
        /\ streakAdded \cap Keys(disk) = {}
        /\ Keys(streakBase) \subseteq Keys(disk)

(***************************************************************************)
(* C6.  Manifest disjointness: no name is in both installed_by_us and      *)
(* already_existed of a manifest an install run wrote.                     *)
(***************************************************************************)
C6_ManifestDisjoint ==
    manifest.kind = "obj" =>
        Range(manifest.installed_by_us) \cap manifest.already_existed = {}

(***************************************************************************)
(* C7.  Merge classification: with starting document D and desired set S,  *)
(* all actions succeeding, the manifest written has installed list         *)
(* S \ keys(D) and pre-existing list S \cap keys(D), and the saved         *)
(* registry's key set is keys(D) \cup S.                                   *)
(***************************************************************************)
C7_MergeClassification ==
    (pc = "done" /\ tool \in MANIFEST_INSTALLERS /\ "manifest" \in Range(log)
        /\ self.failed_mcps = << >>) =>
        LET S == Desired(tool, self) IN
        /\ Range(manifest.installed_by_us) = S \ Keys(pre)
        /\ manifest.already_existed = S \cap Keys(pre)
        /\ Keys(disk) = Keys(pre) \cup S

(***************************************************************************)
(* C8.  An uninstall run started with no manifest present and without the  *)
(* force flag removes no entry, leaves the registry file unchanged and     *)
(* exits with a non-zero code.  uninstaller-clean.py has no force flag and *)
(* falls back to its hardcoded list.                                       *)
(***************************************************************************)
NoManifestNoForce ==
    \/ tool = "uninst" /\ ~force /\ manifest.kind = "absent"
          /\ "cleanup" \notin Range(log)
    \/ tool = "clean" /\ coreManifest.kind = "absent" /\ self.by # "manifest"

C8_RefusesWithoutManifest ==
    (pc = "done" /\ NoManifestNoForce) => (disk = pre /\ exitCode # 0)

(***************************************************************************)
(* C9.  A run that writes the registry file while a document exists on     *)
(* disk (empty and unparseable ones included) has created a backup copy of *)
(* that document earlier in the same run.                                  *)
(***************************************************************************)
C9_BackupBeforeWrite ==
    (RegistrySaved /\ pre.kind # "absent") =>
        /\ "backup" \in Range(log)
        /\ \E b \in backups : b.content = pre

(***************************************************************************)
(* C10.  If the registry file exists and cannot be parsed, the install run *)
(* ends failed and the file's content is left as it was.                   *)
(***************************************************************************)
C10_MalformedIsFatal ==
    (pc = "done" /\ tool \in INSTALLERS /\ pre.kind = "malformed") =>
        (exitCode # 0 /\ disk = pre)

(***************************************************************************)
(* C11.  While the registry is saved, a crash or write error included, the *)
(* file on disk is the complete previous document or the complete new one, *)
(* never a truncated one.  Every program opens the file with mode 'w',     *)
(* which truncates it, and dumps the document into it.                     *)
(***************************************************************************)
C11_SaveIsAtomic ==
    (pc # "idle" /\ pre.kind # "malformed") => disk.kind # "malformed"

(***************************************************************************)
(* C12.  Partial-failure isolation: an entry whose acquisition action      *)
(* failed is not added to the registry by the run and is not in the        *)
(* installed list; every entry whose action succeeded is registered.       *)
(* install.py and install_v3.4 record a failed clone and configure the     *)
(* entry all the same.                                                     *)
(***************************************************************************)
\* The entries whose acquisition action failed in the run.
Failed(t, me) ==
    IF t \in { "v3.3", "v3.4" } THEN Range(me.errors) ELSE Range(me.failed_mcps)

C12_FailedEntriesIsolated ==
    InstallSaved =>
        /\ \A n \in Failed(tool, self) \ Keys(pre) : n \notin Keys(disk)
        /\ Failed(tool, self) \cap Range(self.installed_by_us) = {}
        /\ (CatalogOf(tool) \ Failed(tool, self)) \subseteq Keys(disk)

(***************************************************************************)
(* C13.  An acquisition action that keeps failing is executed exactly 3    *)
(* times in the run before its entry is marked failed.  No program of the  *)
(* repository retries: each action is one subprocess call.                 *)
(***************************************************************************)
C13_ThreeAttempts ==
    (pc = "done" /\ tool \in INSTALLERS) =>
        \A n \in Failed(tool, self) : self.attempts[n] = 3

(***************************************************************************)
(* C14.  An install run exits with code 0 only when every entry's          *)
(* acquisition action succeeded and the registry was persisted; a run with *)
(* a failed action exits non-zero.  install_v3.1 only warns about a failed *)
(* Python MCP, install.py only collects the error.                         *)
(***************************************************************************)
C14_ExitZeroMeansFullSuccess ==
    (pc = "done" /\ tool \in INSTALLERS /\ exitCode = 0) =>
        (Failed(tool, self) = {} /\ RegistrySaved)

(***************************************************************************)
(* C15.  Merge idempotence: merging the desired set S into the result of a *)
(* first merge with S gives the document of the first merge,               *)
(* merge(merge(D, S), S) = merge(D, S).                                    *)
(***************************************************************************)
\* The document an installer's merge makes of document d.
MergeOf(t, me, d) ==
    IF t = "v3.0" THEN merge_configs(d, me.MCP_CONFIGS, << >>).config
    ELSE IF t = "v3.1" THEN merge_configs_v31(d, me.MCP_CONFIGS, << >>).config
    ELSE IF t = "fed"
         THEN Doc(TRUE, add_our_mcps(load_or_create(d).mcpServers, me.installed_mcps),
                  load_or_create(d).other)
    ELSE Doc(TRUE, configure_all(load_or_create(d).mcpServers,
                       IF t = "v3.4" THEN LOCAL_PYTHON_MCPS_v34
                                     ELSE LOCAL_PYTHON_MCPS_v33),
             load_or_create(d).other)

\* The document the running installer merged into.
MergeInput == IF tool \in MANIFEST_INSTALLERS THEN self.existing_config ELSE pre

\* The merge is the last step the run has logged (install_v3.0 and
\* install_v3.1), or the run is of an installer that merges and saves in one
\* step; self.config is not assigned after the merge.
JustMerged ==
    /\ tool \in INSTALLERS
    /\ log # << >>
    /\ IF tool \in MANIFEST_INSTALLERS THEN log[Len(log)] = "merge"
       ELSE "merge" \in Range(log)

C15_MergeIdempotent ==
    JustMerged =>
        LET first == MergeOf(tool, self, MergeInput) IN
        /\ self.config = first
        /\ MergeOf(tool, self, first) = first

C15_Witness ==
    /\ tool = "v3.0"
    /\ pc = "save"
    /\ "filesystem" \in Keys(self.existing_config)
    /\ "existing-mcp-1" \in Keys(self.existing_config)
    /\ "memory" \in Keys(self.config)

C17_ReinstallReproducesManifest ==
    (pc = "done" /\ trip.phase = 2 /\ tool = trip.tool /\ exitCode = 0
        /\ "manifest" \in Range(log) /\ self.MCP_CONFIGS = trip.S) =>
        /\ manifest.installed_by_us = trip.manifest.installed_by_us
        /\ manifest.already_existed = trip.manifest.already_existed
        /\ disk = trip.disk

(***************************************************************************)
(* C18.  Order of the steps of an install run.                             *)
(***************************************************************************)
\* The position of step x in the sequence order.
Pos(x, order) == CHOOSE i \in DOMAIN order : order[i] = x

\* The steps of l are steps of order and follow each other as in order.
InOrder(l, order) ==
    /\ Range(l) \subseteq Range(order)
    /\ \A i, j \in DOMAIN l : i < j => Pos(l[i], order) < Pos(l[j], order)

\* The order the specification gives.
StatedOrder ==
    << "prereq", "backup", "actions", "merge", "save", "manifest", "validate" >>

\* The order of MCPInstaller.run.
RunOrder ==
    << "prereq", "actions", "read", "backup", "merge", "save", "validate", "manifest" >>

C19_PrereqFailureAborts ==
    [][ (pc = "start" /\ tool \in INSTALLERS /\ pc' = "done") =>
            (exitCode' # 0 /\ log' = << >> /\ UNCHANGED files) ]_vars

C19_Witness ==
    /\ pc = "done"
    /\ tool \in INSTALLERS
    /\ log = << >>
    /\ exitCode = 1
    /\ pre.kind = "doc"

ManifestWriteFailed ==
    /\ pc = "done"
    /\ tool \in MANIFEST_INSTALLERS
    /\ RegistrySaved
    /\ "manifest" \notin Range(log)

C21_ManifestFailureAborts ==
    ManifestWriteFailed => (exitCode # 0 /\ disk = pre)

(***************************************************************************)
(* C22.  In an uninstall run the steps occur in the order load manifest,   *)
(* backup, remove, persist, cleanup manifest; the manifest file is deleted *)
(* only after the registry has been persisted with the entries removed,    *)
(* and a run whose removal or persisting failed ends with the manifest     *)
(* file still present.  uninstaller-clean.py ignores the result of         *)
(* remove_federation_mcps and unlinks the manifest afterwards.             *)
(***************************************************************************)
\* The order of SafeMCPUninstaller.run, with the user's confirmation.
UninstallOrder ==
    << "manifest_loaded", "confirmed", "backup", "read", "remove", "save", "cleanup" >>

\* The run could not remove its entries from the registry or could not
\* persist the result.
RemovalFailed ==
    \/ pre.kind = "malformed"
    \/ "remove" \in Range(log) /\ "save" \notin Range(log)

C22_CleanupAfterPersist ==
    (pc = "done" /\ tool \in { "uninst", "clean" }) =>
        /\ InOrder(log, UninstallOrder)
        /\ "cleanup" \in Range(log) => ~RemovalFailed

(***************************************************************************)
(* C23.  In every install run the registry file is written at most once,   *)
(* and only after the outcome of every acquisition action is known; up to  *)
(* the end of the action phase the file is what the run found, so a run    *)
(* interrupted in the action phase leaves it unchanged.                    *)
(***************************************************************************)
\* The positions of step x in the log.
Places(x) == { i \in DOMAIN log : log[i] = x }

C23_SingleWriteAfterActions ==
    tool \in INSTALLERS =>
        /\ Cardinality(Places("save")) <= 1
        /\ \A i \in Places("save") : \A j \in Places("actions") : j < i
        /\ (RegistrySaved /\ tool # "v3.0") => "actions" \in Range(log)
        /\ "merge" \notin Range(log) => disk = pre

C23_Witness ==
    /\ pc = "done"
    /\ tool \in { "v3.1", "v3.3", "fed" }
    /\ log = << "prereq" >>
    /\ exitCode = 1
    /\ Keys(pre) = { "existing-mcp-1" }
    /\ disk = pre

(***************************************************************************)
(* C24.  In every manifest written by install, each name of the            *)
(* pre-existing list or of the installed list that is a key of the live    *)
(* registry is a name of the catalog recorded in that manifest             *)
(* (claude_desktop_mcps).  read_existing_config records every key of the   *)
(* registry as already existing, the user's own servers included.          *)
(***************************************************************************)
\* The names a manifest file lists, installed or pre-existing.
Listed(m) == Range(m.installed_by_us) \cup m.already_existed

C24_ListedNamesRecognized ==
    (pc = "done" /\ tool \in MANIFEST_INSTALLERS /\ "manifest" \in Range(log)) =>
        (Listed(manifest) \cap Keys(disk)) \subseteq Range(manifest.claude_desktop_mcps)

(***************************************************************************)
(* C25.  Once a backup file has been created, no later install or          *)
(* uninstall run changes its content or removes it, a run whose            *)
(* second-resolution timestamp equals that of the run that created it      *)
(* included: every step that touches the backup directory leaves each      *)
(* existing backup as it is and adds one record.  The backup name carries  *)
(* the second only and shutil.copy2 replaces a file of the same name.      *)
(***************************************************************************)
C25_BackupsImmutable ==
    [][ backups' # backups =>
            /\ backups \subseteq backups'
            /\ Cardinality(backups') = Cardinality(backups) + 1 ]_vars

(***************************************************************************)
(* C26.  A run that aborts before any mutation occurred (prerequisite      *)
(* failure, backup failure, uninstall refusal) exits with a non-zero code  *)
(* that differs from the non-zero code of a run that persisted a           *)
(* best-effort result with failed entries.  Every program returns 1 for    *)
(* every failure.                                                          *)
(***************************************************************************)
\* main of the federated installer: sys.exit(0 if success else 1), where
\* success is len(self.failed_mcps) == 0 after the configuration was written.
BestEffortCodes == { 1 }

\* The run persisted the registry although some entries failed, and reports it.
BestEffort ==
    /\ pc = "done"
    /\ InstallSaved
    /\ Failed(tool, self) # {}
    /\ exitCode # 0

\* The run ended in failure before it merged, removed or wrote anything.
AbortedBeforeMutation ==
    /\ pc = "done"
    /\ exitCode # 0
    /\ Range(log) \cap { "merge", "remove", "save", "manifest", "cleanup" } = {}
    /\ disk = pre

C26_AbortCodeDistinct ==
    /\ BestEffort => exitCode \in BestEffortCodes
    /\ AbortedBeforeMutation => exitCode \notin BestEffortCodes

(***************************************************************************)
(* C27.  An install or uninstall run never destroys an entry that another  *)
(* tool placed in the registry, an entry written to the file by another    *)
(* writer between the run's load of the document and its save included.    *)
(* The programs hold no lock and write back the document they loaded.      *)
(***************************************************************************)
\* The server another tool registers.
OTHER_TOOL_MCP == "other-tool-mcp"

\* Another process adds its server to the registry file, at any moment: the
\* file is shared and the programs take no lock on it.
OtherToolWrites ==
    /\ disk.kind = "doc"
    /\ disk.hasServers
    /\ OTHER_TOOL_MCP \notin Keys(disk)
    /\ disk' = [ disk EXCEPT !.mcpServers = Put(disk.mcpServers, OTHER_TOOL_MCP, "other") ]
    /\ UNCHANGED << manifest, coreManifest, backups, proc, runs, faults, hist >>

NextShared == Next \/ OtherToolWrites

\* One run of any program on a registry file another tool writes too.
SpecShared == InitAny /\ [][NextShared]_vars

C27_OtherToolEntryKept ==
    [][ (OTHER_TOOL_MCP \in Keys(disk) /\ disk'.kind = "doc") =>
            OTHER_TOOL_MCP \in Keys(disk') ]_vars

(***************************************************************************)
(* C28.  Whenever the manifest file exists and parses (a manifest that is  *)
(* an empty object or has an empty installed list included), uninstall     *)
(* removes only names of that manifest's installed list, with or without   *)
(* --force; the hardcoded set is used only when no manifest can be loaded. *)
(* Both uninstallers test the loaded manifest for truth, and {} is false.  *)
(***************************************************************************)
\* The running uninstaller loaded a manifest file that parses.
ManifestParsed ==
    IF tool = "clean" THEN self.coreManifest.kind = "obj"
    ELSE tool = "uninst" /\ self.manifest.kind = "obj"

C28_ManifestSoleSource ==
    ManifestParsed =>
        /\ Range(self.removed) \subseteq LoadedInstalled
        /\ self.by \notin { "force", "fallback" }

(***************************************************************************)
(* C29.  The hardcoded name set removed by a forced (manifest-less)        *)
(* uninstall is the set of names the installer registers: after an install *)
(* run followed by a forced uninstall the registry holds no entry an       *)
(* installer added.  install.py registers three names and the federated    *)
(* installer one name that the list of uninstall.py does not hold.         *)
(***************************************************************************)
\* The entry values the installers write.
InstallerValues ==
    { NpxConfig, PythonConfig, NpxCmdConfig, LocalNodeConfig, LocalPythonConfig,
      MatrixConfig }

\* The run removed the names of a hardcoded list and saved the registry.
ForcedUninstallDone ==
    /\ pc = "done"
    /\ tool \in { "uninst", "clean" }
    /\ self.by \in { "force", "fallback" }
    /\ exitCode = 0
    /\ RegistrySaved

C29_ForcedUninstallComplete ==
    ForcedUninstallDone =>
        \A n \in Keys(disk) : disk.mcpServers[n] \notin InstallerValues

(***************************************************************************)
(* C30.  After a successful manifest-driven uninstall run the manifest     *)
(* file is absent, so an immediately following uninstall run without       *)
(* --force refuses with a non-zero exit code and leaves the registry, the  *)
(* backups and the (absent) manifest unchanged.  cleanup_manifest reports  *)
(* an unlink that fails and the run still ends with exit code 0.           *)
(***************************************************************************)
\* The last run that ended was a manifest-driven uninstall.py run that saved
\* the registry and returned 0 (after an install that wrote the manifest).
AfterManifestUninstall == trip.phase = 2

C30_SecondUninstallRefuses ==
    AfterManifestUninstall =>
        /\ pc = "idle" => manifest.kind = "absent"
        /\ (pc = "done" /\ tool = "uninst" /\ ~force) =>
              /\ exitCode # 0
              /\ log = << >>
              /\ disk = pre
              /\ manifest.kind = "absent"

=============================================================================
